---- MODULE Spec2Model ----
(***************************************************************************)
(* Model of templates/build.rs: the Rust CI tool runner template.          *)
(*                                                                         *)
(* One process run is modelled: Cli::parse() has produced `cli`,           *)
(* tools_config() yields `configs`, run_all_checks selects and orders the  *)
(* tools, runs each one through run_tool (spawn, then wait for the child), *)
(* aggregates the Summary, main renders the Report and maps the verdict to *)
(* the process exit status.                                                *)
(*                                                                         *)
(* Option<T> values are modelled as sequences of length 0 (None) or 1      *)
(* (Some(x)). Strings built by format!/join are modelled as the sequence   *)
(* of their parts. Byte streams are sequences of byte values.              *)
(***************************************************************************)
EXTENDS Integers, Sequences, FiniteSets, TLC

\* ---------------------------------------------------------------------
\* Bounds of the environment
\* ---------------------------------------------------------------------

\* Largest "ordinary" exit code a child returns (besides 127 and signals).
MaxExitCode == 1

\* Latest instant (in ms since the start of the run) the clock reaches.
MaxClock == 1

\* ---------------------------------------------------------------------
\* Program constants
\* ---------------------------------------------------------------------

LaunchFailedCode == 127

SignalExitCode == 1

SentinelIndex == 999

ReplacementChar == 65533

None == << >>

Some(x) == << x >>

IsSome(o) == Len(o) = 1

\* const TARGET_DIRS
TARGET_DIRS == << "src", "crates", "tests" >>

\* let preferred_order = [...]
preferred_order == << "cargo-fmt", "cargo-clippy", "cargo-test" >>

\* ---------------------------------------------------------------------
\* Tool names and their byte-wise (str Ord) comparison
\* ---------------------------------------------------------------------

\* UTF-8 bytes of every tool name the model uses as a registry key or as
\* a --tool argument.
NameBytes ==
    [ n \in { "audit", "cargo-clippy", "cargo-fmt", "cargo-test", "udeps",
              "does-not-exist" } |->
        CASE n = "audit"          -> << 97, 117, 100, 105, 116 >>
          [] n = "cargo-clippy"   -> << 99, 97, 114, 103, 111, 45,
                                        99, 108, 105, 112, 112, 121 >>
          [] n = "cargo-fmt"      -> << 99, 97, 114, 103, 111, 45,
                                        102, 109, 116 >>
          [] n = "cargo-test"     -> << 99, 97, 114, 103, 111, 45,
                                        116, 101, 115, 116 >>
          [] n = "udeps"          -> << 117, 100, 101, 112, 115 >>
          [] n = "does-not-exist" -> << 100, 111, 101, 115, 45, 110, 111,
                                        116, 45, 101, 120, 105, 115, 116 >> ]

ToolNames == DOMAIN NameBytes

\* Lexicographic byte order of two byte sequences (Ord for str).
RECURSIVE BytesLess(_, _)
BytesLess(a, b) ==
    IF Len(b) = 0 THEN FALSE
    ELSE IF Len(a) = 0 THEN TRUE
    ELSE IF Head(a) < Head(b) THEN TRUE
    ELSE IF Head(a) > Head(b) THEN FALSE
    ELSE BytesLess(Tail(a), Tail(b))

NameLess(x, y) == BytesLess(NameBytes[x], NameBytes[y])

\* Iteration order of a BTreeMap with key set S: ascending keys.
RECURSIVE BTreeKeys(_)
BTreeKeys(S) ==
    IF S = {} THEN << >>
    ELSE LET m == CHOOSE x \in S : \A y \in S \ {x} : NameLess(x, y)
         IN  << m >> \o BTreeKeys(S \ {m})

\* ---------------------------------------------------------------------
\* Configuration: tools_config()
\* ---------------------------------------------------------------------

ToolConfig(description, critical, can_fix, command, args, args_fix) ==
    [ description |-> description, critical |-> critical,
      can_fix |-> can_fix, command |-> command,
      args |-> args, args_fix |-> args_fix ]

\* The registry as written in the template.
ReferenceConfig ==
    [ n \in { "cargo-fmt", "cargo-clippy", "cargo-test" } |->
        CASE n = "cargo-fmt" ->
               ToolConfig("Formatter (cargo fmt)", TRUE, FALSE, "cargo",
                          << "fmt", "--all", "--", "--check" >>,
                          << "fmt", "--all" >>)
          [] n = "cargo-clippy" ->
               ToolConfig("Linter (cargo clippy)", TRUE, FALSE, "cargo",
                          << "clippy", "--all-targets", "--all-features",
                             "--", "-D", "warnings" >>,
                          << >>)
          [] n = "cargo-test" ->
               ToolConfig("Test runner (cargo test)", TRUE, FALSE, "cargo",
                          << "test", "--all-features" >>,
                          << >>) ]

\* The CONFIG section adapted to a project ("Adapt the CONFIG section to
\* your project"): same shape, other entries and flags. Together with the
\* reference registry it covers both values of critical, every combination
\* of can_fix with an empty or non-empty args_fix, and tools outside
\* preferred_order on both sides of the cargo-* keys.
AdaptedConfig ==
    [ n \in { "audit", "cargo-fmt", "udeps" } |->
        CASE n = "audit" ->
               ToolConfig("Advisories (cargo audit)", FALSE, TRUE, "cargo",
                          << "audit" >>, << "audit", "fix" >>)
          [] n = "cargo-fmt" ->
               ToolConfig("Formatter (cargo fmt)", TRUE, TRUE, "cargo",
                          << "fmt", "--all", "--", "--check" >>, << >>)
          [] n = "udeps" ->
               ToolConfig("Unused deps (cargo udeps)", FALSE, FALSE, "cargo",
                          << "udeps" >>, << "udeps", "--fix" >>) ]

tools_config == { ReferenceConfig, AdaptedConfig }

\* ---------------------------------------------------------------------
\* Command line: struct Cli
\* ---------------------------------------------------------------------

PathChoices == { << >>, << "lib" >> }

Cli ==
    [ tool : { None } \cup { Some(n) : n \in ToolNames },
      paths : PathChoices,
      fix : BOOLEAN,
      json : BOOLEAN,
      verbose : BOOLEAN ]

\* ---------------------------------------------------------------------
\* Environment: what the operating system and the child process do
\* ---------------------------------------------------------------------

\* io::Error kinds of a failed spawn.
OsErrors == { "NotFound", "PermissionDenied" }

\* ExitStatus::code() of a child: Some(code), or None when it was killed
\* by a signal.
ExitStatuses ==
    { Some(c) : c \in (0 .. MaxExitCode) \cup { LaunchFailedCode } }
        \cup { None }

\* Bytes the child wrote to stdout and stderr, by its exit status.
ChildStdout(status) ==
    IF status = Some(0) THEN << 111, 107 >> ELSE << >>

ChildStderr(status) ==
    IF status = Some(0) THEN << >> ELSE << 101, 255, 114 >>


\* ---------------------------------------------------------------------
\* Tool runner
\* ---------------------------------------------------------------------

\* Mutation: a child killed by a signal is reported with the launch-failure
\* code.
status_to_exit_code_SignalAs127(status) ==
    IF IsSome(status) THEN status[1] ELSE LaunchFailedCode

status_to_exit_code(status) ==
    IF IsSome(status) THEN status[1] ELSE SignalExitCode

\* String::from_utf8_lossy for streams of ASCII bytes and bytes that start
\* no valid sequence (0xF8..0xFF): each of the latter becomes U+FFFD.
from_utf8_lossy(bytes) ==
    [ i \in 1 .. Len(bytes) |->
        IF bytes[i] < 128 THEN bytes[i] ELSE ReplacementChar ]

\* Mutation: can_fix is not consulted.
SelectArgs_IgnoreCanFix(cfg, fix_mode) ==
    IF fix_mode /\ cfg.args_fix # << >>
    THEN cfg.args_fix
    ELSE cfg.args

\* run_tool: the argument list chosen for the command.
SelectArgs(cfg, fix_mode) ==
    IF fix_mode /\ cfg.can_fix /\ cfg.args_fix # << >>
    THEN cfg.args_fix
    ELSE cfg.args

\* Mutation: the target paths are appended to the argument list.
BuildCommand_WithPaths(cfg, target_paths, fix_mode) ==
    [ program |-> cfg.command,
      args |-> ( IF fix_mode /\ cfg.can_fix /\ cfg.args_fix # << >>
                 THEN cfg.args_fix
                 ELSE cfg.args ) \o target_paths ]

\* run_tool: the Command that is built (target_paths is in scope and is
\* not added to it).
BuildCommand(cfg, target_paths, fix_mode) ==
    [ program |-> cfg.command, args |-> SelectArgs(cfg, fix_mode) ]

\* run_tool: lines written to stderr before the launch.
VerboseLog(cfg, args, target_paths, verbose) ==
    IF ~verbose THEN << >>
    ELSE << << "Running: ", cfg.command, args >> >>
         \o ( IF target_paths # << >>
              THEN << << "Target paths: ", target_paths >> >>
              ELSE << >> )

\* Mutation: fixed only when the fix-mode arguments were the ones run.
Fixed_WhenFixArgsRun(cfg, fix_mode) ==
    fix_mode /\ cfg.can_fix /\ cfg.args_fix # << >>

\* run_tool: value of the `fixed` field (same expression in both arms).
Fixed(cfg, fix_mode) == fix_mode /\ cfg.can_fix

\* Mutation: a failed launch is reported with the generic failure code.
LaunchFailedResult_Code1(tool_name, cfg, fix_mode, err, duration) ==
    [ tool |-> tool_name,
      description |-> cfg.description,
      available |-> FALSE,
      exit_code |-> SignalExitCode,
      stdout |-> << >>,
      stderr |-> << "Failed to execute ", cfg.command, ": ", err >>,
      critical |-> cfg.critical,
      can_fix |-> cfg.can_fix,
      fixed |-> fix_mode /\ cfg.can_fix,
      duration_ms |-> duration ]

\* run_tool: the Err(err) arm of cmd.output(). (The back quotes around the
\* command in the message are left out of the string parts.)
LaunchFailedResult(tool_name, cfg, fix_mode, err, duration) ==
    [ tool |-> tool_name,
      description |-> cfg.description,
      available |-> FALSE,
      exit_code |-> LaunchFailedCode,
      stdout |-> << >>,
      stderr |-> << "Failed to execute ", cfg.command, ": ", err >>,
      critical |-> cfg.critical,
      can_fix |-> cfg.can_fix,
      fixed |-> Fixed(cfg, fix_mode),
      duration_ms |-> duration ]

\* run_tool: the Ok(out) arm of cmd.output().
CompletedResult(tool_name, cfg, fix_mode, status, out, err, duration) ==
    [ tool |-> tool_name,
      description |-> cfg.description,
      available |-> TRUE,
      exit_code |-> status_to_exit_code(status),
      stdout |-> from_utf8_lossy(out),
      stderr |-> from_utf8_lossy(err),
      critical |-> cfg.critical,
      can_fix |-> cfg.can_fix,
      fixed |-> Fixed(cfg, fix_mode),
      duration_ms |-> duration ]

\* ---------------------------------------------------------------------
\* Orchestration: run_all_checks
\* ---------------------------------------------------------------------

\* Key of sort_by_key: position in preferred_order, or the sentinel.
SortKey(name) ==
    IF \E i \in 1 .. Len(preferred_order) : preferred_order[i] = name
    THEN ( CHOOSE i \in 1 .. Len(preferred_order) :
              preferred_order[i] = name ) - 1
    ELSE SentinelIndex

\* Insert x after the last element whose key is <= x's key (stable).
RECURSIVE InsertByKey(_, _)
InsertByKey(sorted, x) ==
    IF sorted = << >> THEN << x >>
    ELSE IF SortKey(sorted[Len(sorted)]) <= SortKey(x)
         THEN Append(sorted, x)
         ELSE Append(InsertByKey(SubSeq(sorted, 1, Len(sorted) - 1), x),
                     sorted[Len(sorted)])

\* Mutation: the sort is left out (the tools run in registry key order).
SortByKey_Unsorted(v) == v

\* Vec::sort_by_key: a stable sort by SortKey.
RECURSIVE SortByKey(_)
SortByKey(v) ==
    IF v = << >> THEN << >>
    ELSE InsertByKey(SortByKey(SubSeq(v, 1, Len(v) - 1)), v[Len(v)])

\* Mutation: the --tool filter is ignored.
SelectTools_IgnoreFilter(c, cfgs) == BTreeKeys(DOMAIN cfgs)

\* tools_to_run before sorting.
SelectTools(c, cfgs) ==
    IF IsSome(c.tool) THEN << c.tool[1] >> ELSE BTreeKeys(DOMAIN cfgs)

\* target_paths
TargetPaths(c) == IF c.paths = << >> THEN TARGET_DIRS ELSE c.paths

\* BTreeMap::insert
MapInsert(m, k, v) ==
    [ x \in DOMAIN m \cup { k } |-> IF x = k THEN v ELSE m[x] ]

EmptyMap == [ x \in {} |-> x ]

\* Mutation: every failing tool is counted, critical or not.
CriticalFailures_AnyTool(res) ==
    Cardinality({ k \in DOMAIN res : res[k].exit_code # 0 })

\* results.values().filter(|r| r.critical && r.exit_code != 0).count()
CriticalFailures(res) ==
    Cardinality({ k \in DOMAIN res :
                    res[k].critical /\ res[k].exit_code # 0 })

OverallStatus(critical_failures) ==
    IF critical_failures > 0 THEN "FAIL" ELSE "PASS"

MakeReport(res, duration) ==
    [ tools |-> res,
      summary |-> [ total_tools_run |-> Cardinality(DOMAIN res),
                    critical_failures |-> CriticalFailures(res),
                    overall_status |-> OverallStatus(CriticalFailures(res)),
                    duration_ms |-> duration ] ]

\* ---------------------------------------------------------------------
\* Presentation: main
\* ---------------------------------------------------------------------

\* serde_json::to_string_pretty(&report): the fields in declaration order,
\* the tools map in key order.
ToJson(rep) ==
    LET keys == BTreeKeys(DOMAIN rep.tools)
    IN  << "tools",
           [ i \in 1 .. Len(keys) |-> << keys[i], rep.tools[keys[i]] >> ],
           "summary", rep.summary >>

\* One line per tool of the human rendering.
HumanLines(rep) ==
    LET keys == BTreeKeys(DOMAIN rep.tools)
    IN  [ i \in 1 .. Len(keys) |->
            << "  ", keys[i], ": ",
               IF rep.tools[keys[i]].exit_code = 0 THEN "OK" ELSE "FAIL" >> ]

\* Mutation: main returns Ok(()) whatever the verdict.
ExitStatusOf_AlwaysOk(ok) == 0

\* Process exit status of `fn main() -> Result<()>`.
ExitStatusOf(ok) == IF ok THEN 0 ELSE 1

\* ---------------------------------------------------------------------
\* State
\* ---------------------------------------------------------------------

VARIABLES
    cli,            \* parsed command line
    configs,        \* tools_config()
    pc,             \* position in main / run_all_checks / run_tool
    tools_to_run,   \* tools the loop has not reached yet
    target_paths,
    results,        \* BTreeMap<String, ToolResult>
    children,       \* child processes started and not yet reaped
    calls,          \* every cmd.output() call in order: the command, and
                    \* what the operating system answered
    tool_started,   \* `started` of the run_tool in progress
    clock,          \* Instant::now(), in ms since run_all_checks started
    report,         \* Option<Report> returned by run_all_checks
    out,            \* lines printed to stdout
    diag,           \* lines printed to stderr
    exit_status,    \* Option<process exit status>
    twin_cli,       \* command line of a second invocation of the program,
                    \* with the same --tool, --fix and --json
    twin            \* that second invocation, run on the same registry
                    \* against the same environment: its tools_to_run,
                    \* target_paths, commands, results, report and exit
                    \* status (what it prints is not kept)

vars == << cli, configs, pc, tools_to_run, target_paths, results, children,
           calls, tool_started, clock, report, out, diag, exit_status,
           twin_cli, twin >>

TwinInit ==
    [ tools_to_run |-> << >>, target_paths |-> << >>, results |-> EmptyMap,
      calls |-> << >>, report |-> None, exit_status |-> None ]

InitRun ==
    /\ cli \in Cli
    /\ configs \in tools_config
    /\ pc = "main"
    /\ tools_to_run = << >>
    /\ target_paths = << >>
    /\ results = EmptyMap
    /\ children = {}
    /\ calls = << >>
    /\ tool_started = 0
    /\ clock = 0
    /\ report = None
    /\ out = << >>
    /\ diag = << >>
    /\ exit_status = None
    /\ twin = TwinInit

\* One invocation (the second one is the same invocation again).
Init ==
    /\ InitRun
    /\ twin_cli = cli

\* Two invocations that differ in --path and/or --verbose only. Each
\* unordered pair is taken once: the first is the one without --path, or
\* with the same --path and without --verbose.
InitPair ==
    /\ InitRun
    /\ twin_cli \in { c \in Cli : /\ c.tool = cli.tool
                                  /\ c.fix = cli.fix
                                  /\ c.json = cli.json
                                  /\ c # cli }
    /\ \/ cli.paths = << >> /\ twin_cli.paths # << >>
       \/ cli.paths = twin_cli.paths /\ ~cli.verbose

\* run_all_checks up to the loop: select, order, resolve target paths.
Select ==
    /\ pc = "main"
    /\ tools_to_run' = SortByKey(SelectTools(cli, configs))
    /\ target_paths' = TargetPaths(cli)
    /\ results' = EmptyMap
    /\ pc' = "loop"
    /\ twin' = [ twin EXCEPT
                   !.tools_to_run = SortByKey(SelectTools(twin_cli, configs)),
                   !.target_paths = TargetPaths(twin_cli) ]
    /\ UNCHANGED << cli, configs, children, calls, tool_started, clock,
                    report, out, diag, exit_status, twin_cli >>

\* Lines main's error return prints: the context and the cause.
ErrorLine(context, cause) == << "Error: ", context, cause >>

\* Mutation: an unknown tool is skipped and the loop goes on.
UnknownTool_Skipped ==
    /\ pc = "loop"
    /\ tools_to_run # << >>
    /\ Head(tools_to_run) \notin DOMAIN configs
    /\ tools_to_run' = Tail(tools_to_run)
    /\ twin' = [ twin EXCEPT !.tools_to_run = Tail(@) ]
    /\ UNCHANGED << cli, configs, pc, target_paths, results, children,
                    calls, tool_started, clock, report, out, diag,
                    exit_status, twin_cli >>

\* Loop body, lookup fails: `?` returns the error from run_all_checks, and
\* main's `?` returns it (with context) from main.
UnknownTool ==
    /\ pc = "loop"
    /\ tools_to_run # << >>
    /\ Head(tools_to_run) \notin DOMAIN configs
    /\ diag' = Append(diag, ErrorLine("Failed to run Rust checks",
                                << "Unknown tool: ", Head(tools_to_run) >>))
    /\ exit_status' = Some(ExitStatusOf(FALSE))
    /\ pc' = "done"
    /\ twin' = [ twin EXCEPT !.exit_status = Some(ExitStatusOf(FALSE)) ]
    /\ UNCHANGED << cli, configs, tools_to_run, target_paths, results,
                    children, calls, tool_started, clock, report, out,
                    twin_cli >>

\* Entry of the call log.
Call(tool_name, cmd, launched, exited, status) ==
    [ tool |-> tool_name, cmd |-> cmd, launched |-> launched,
      exited |-> exited, status |-> status ]

\* run_tool up to and including the launch attempt of cmd.output().
\* Either the child starts, or the launch fails after `d` ms and the
\* synthetic result is inserted.
Spawn ==
    /\ pc = "loop"
    /\ tools_to_run # << >>
    /\ Head(tools_to_run) \in DOMAIN configs
    /\ LET tool_name == Head(tools_to_run)
           cfg == configs[tool_name]
           cmd == BuildCommand(cfg, target_paths, cli.fix)
           tool_name2 == Head(twin.tools_to_run)
           cfg2 == configs[tool_name2]
           cmd2 == BuildCommand(cfg2, twin.target_paths, twin_cli.fix)
       IN  /\ diag' = diag \o VerboseLog(cfg, cmd.args, target_paths,
                                         cli.verbose)
           /\ \/ /\ children' = children \cup { [ tool |-> tool_name,
                                                   cmd |-> cmd ] }
                 /\ calls' = Append(calls,
                                Call(tool_name, cmd, TRUE, FALSE, None))
                 /\ tool_started' = clock
                 /\ pc' = "wait"
                 /\ twin' = [ twin EXCEPT
                       !.calls = Append(@,
                           Call(tool_name2, cmd2, TRUE, FALSE, None)) ]
                 /\ UNCHANGED << tools_to_run, results, clock >>
              \/ \E err \in OsErrors, d \in 0 .. (MaxClock - clock) :
                 /\ calls' = Append(calls,
                                Call(tool_name, cmd, FALSE, FALSE, None))
                 /\ clock' = clock + d
                 /\ results' = MapInsert(results, tool_name,
                        LaunchFailedResult(tool_name, cfg, cli.fix, err, d))
                 /\ tools_to_run' = Tail(tools_to_run)
                 /\ tool_started' = clock
                 /\ twin' = [ twin EXCEPT
                       !.calls = Append(@,
                           Call(tool_name2, cmd2, FALSE, FALSE, None)),
                       !.results = MapInsert(@, tool_name2,
                           LaunchFailedResult(tool_name2, cfg2, twin_cli.fix,
                                              err, d)),
                       !.tools_to_run = Tail(@) ]
                 /\ UNCHANGED << children, pc >>
    /\ UNCHANGED << cli, configs, target_paths, report, out, exit_status,
                    twin_cli >>

\* The last call of the log, marked as exited with `status`.
Exited(log, status) ==
    [ log EXCEPT ![Len(log)].exited = TRUE, ![Len(log)].status = status ]

\* cmd.output() returns Ok: the child has exited and been reaped; the
\* result is inserted.
Wait ==
    /\ pc = "wait"
    /\ \E status \in ExitStatuses, d \in 0 .. (MaxClock - clock) :
       LET tool_name == Head(tools_to_run)
           cfg == configs[tool_name]
           tool_name2 == Head(twin.tools_to_run)
           cfg2 == configs[tool_name2]
       IN  /\ clock' = clock + d
           /\ calls' = Exited(calls, status)
           /\ results' = MapInsert(results, tool_name,
                  CompletedResult(tool_name, cfg, cli.fix, status,
                                  ChildStdout(status), ChildStderr(status),
                                  clock + d - tool_started))
           /\ twin' = [ twin EXCEPT
                 !.calls = Exited(@, status),
                 !.results = MapInsert(@, tool_name2,
                     CompletedResult(tool_name2, cfg2, twin_cli.fix, status,
                                     ChildStdout(status), ChildStderr(status),
                                     clock + d - tool_started)),
                 !.tools_to_run = Tail(@) ]
    /\ children' = { c \in children : c.tool # Head(tools_to_run) }
    /\ tools_to_run' = Tail(tools_to_run)
    /\ pc' = "loop"
    /\ UNCHANGED << cli, configs, target_paths, tool_started, report, out,
                    diag, exit_status, twin_cli >>

\* After the loop: the Summary is computed and the Report returned.
Aggregate ==
    /\ pc = "loop"
    /\ tools_to_run = << >>
    /\ report' = Some(MakeReport(results, clock))
    /\ pc' = "render"
    /\ twin' = [ twin EXCEPT !.report = Some(MakeReport(twin.results, clock)) ]
    /\ UNCHANGED << cli, configs, tools_to_run, target_paths, results,
                    children, calls, tool_started, clock, out, diag,
                    exit_status, twin_cli >>

\* Lines the human rendering writes to stderr.
StatusLines(rep) ==
    << << "Status: ", rep.summary.overall_status >>,
       << "Duration: ", rep.summary.duration_ms, "ms" >> >>

\* main: print the report, as JSON or as human-readable lines.
Render ==
    /\ pc = "render"
    /\ IF cli.json
       THEN /\ out' = Append(out, ToJson(report[1]))
            /\ diag' = diag
       ELSE /\ diag' = diag \o StatusLines(report[1])
            /\ out' = out \o HumanLines(report[1])
    /\ pc' = "verdict"
    /\ UNCHANGED << cli, configs, tools_to_run, target_paths, results,
                    children, calls, tool_started, clock, report,
                    exit_status, twin_cli, twin >>

\* main: map the verdict to the process exit status.
Verdict ==
    /\ pc = "verdict"
    /\ IF report[1].summary.overall_status = "PASS"
       THEN /\ exit_status' = Some(ExitStatusOf(TRUE))
            /\ diag' = diag
       ELSE /\ exit_status' = Some(ExitStatusOf(FALSE))
            /\ diag' = Append(diag, ErrorLine("Rust checks failed", << >>))
    /\ twin' = [ twin EXCEPT !.exit_status =
                   Some(ExitStatusOf(
                       twin.report[1].summary.overall_status = "PASS")) ]
    /\ pc' = "done"
    /\ UNCHANGED << cli, configs, tools_to_run, target_paths, results,
                    children, calls, tool_started, clock, report, out,
                    twin_cli >>

Next ==
    \/ Select
    \/ UnknownTool
    \/ Spawn
    \/ Wait
    \/ Aggregate
    \/ Render
    \/ Verdict

Spec == Init /\ [][Next]_vars

SpecPair == InitPair /\ [][Next]_vars

\* ---------------------------------------------------------------------
\* Properties
\* ---------------------------------------------------------------------

\* The working set of the run: {name} for --tool name, else every key.
WorkingSet ==
    IF IsSome(cli.tool) THEN { cli.tool[1] } ELSE DOMAIN configs

UnknownRequested == IsSome(cli.tool) /\ cli.tool[1] \notin DOMAIN configs

CalledTools == { calls[i].tool : i \in DOMAIN calls }

IsPreferred(n) == \E i \in DOMAIN preferred_order : preferred_order[i] = n

PreferredPos(n) == CHOOSE i \in DOMAIN preferred_order : preferred_order[i] = n

\* Tools of a result map that are critical and did not exit with 0.
FailedCritical(res) ==
    { k \in DOMAIN res : res[k].critical /\ res[k].exit_code # 0 }

\* C1: in every Report, overall_status is FAIL iff some result is critical
\* with a non-zero exit code, critical_failures is the number of such
\* results, and failures of non-critical tools alone leave the status PASS.
C1_VerdictIffCriticalFailure ==
    IsSome(report) =>
        LET r == report[1]
        IN  /\ r.tools = results
            /\ r.summary.overall_status \in { "PASS", "FAIL" }
            /\ r.summary.overall_status = "FAIL"
                   <=> FailedCritical(r.tools) # {}
            /\ r.summary.critical_failures
                   = Cardinality(FailedCritical(r.tools))
            /\ ( \A k \in DOMAIN r.tools :
                     r.tools[k].exit_code # 0 => ~r.tools[k].critical )
                   => r.summary.overall_status = "PASS"

\* A report that says PASS although a non-critical tool failed.
C1_Witness ==
    /\ IsSome(report)
    /\ report[1].summary.overall_status = "PASS"
    /\ \E k \in DOMAIN report[1].tools :
           /\ ~report[1].tools[k].critical
           /\ report[1].tools[k].exit_code # 0

\* C2: when --tool names no registry entry, no subprocess is launched, no
\* Report is produced, nothing of a report is printed (stdout stays empty,
\* stderr holds only the error), and the process exits non-zero with the
\* unknown-tool error.
C2_UnknownToolAborts ==
    UnknownRequested =>
        /\ calls = << >>
        /\ children = {}
        /\ results = EmptyMap
        /\ report = None
        /\ out = << >>
        /\ pc \in { "main", "loop", "done" }
        /\ \A i \in DOMAIN diag : diag[i][1] = "Error: "
        /\ pc = "done" =>
               /\ IsSome(exit_status)
               /\ exit_status[1] # 0
               /\ diag = << << "Error: ", "Failed to run Rust checks",
                               << "Unknown tool: ", cli.tool[1] >> >> >>

\* The process has exited on an unknown tool, in verbose JSON mode.
C2_Witness ==
    /\ UnknownRequested
    /\ pc = "done"
    /\ cli.verbose
    /\ cli.json
    /\ exit_status = Some(1)

\* C3: no tool is run twice and none outside the working set; once the
\* Report exists, the tools run are exactly the working set, the keys of
\* the Report's tools are the working set, each result's tool field is its
\* key, and total_tools_run is the size of the working set (3 for the
\* reference registry without --tool).
C3_RunsExactlyWorkingSet ==
    /\ \A i, j \in DOMAIN calls : calls[i].tool = calls[j].tool => i = j
    /\ CalledTools \subseteq WorkingSet
    /\ IsSome(report) =>
           LET r == report[1]
           IN  /\ CalledTools = WorkingSet
               /\ Len(calls) = Cardinality(WorkingSet)
               /\ DOMAIN r.tools = WorkingSet
               /\ \A k \in DOMAIN r.tools : r.tools[k].tool = k
               /\ r.summary.total_tools_run = Cardinality(WorkingSet)
               /\ ( configs = ReferenceConfig /\ cli.tool = None )
                      => r.summary.total_tools_run = 3

\* A report of a run with --tool udeps on a registry of three tools.
C3_Witness ==
    /\ IsSome(report)
    /\ cli.tool = Some("udeps")
    /\ Cardinality(DOMAIN configs) = 3
    /\ Len(calls) = 1
    /\ report[1].summary.total_tools_run = 1

\* C4: at most one child process exists at a time, every earlier tool has
\* its result (its child exited, or its launch failed) when the next one is
\* launched, and the launch order puts tools of preferred_order first, in
\* that order, and the others after them in ascending key order.
C4_SequentialPreferredOrder ==
    /\ Cardinality(children) <= 1
    /\ \A i \in DOMAIN calls :
           i < Len(calls) =>
               /\ calls[i].tool \in DOMAIN results
               /\ calls[i].launched => calls[i].exited
    /\ children # {} =>
           /\ calls # << >>
           /\ calls[Len(calls)].launched
           /\ ~calls[Len(calls)].exited
           /\ children = { [ tool |-> calls[Len(calls)].tool,
                             cmd |-> calls[Len(calls)].cmd ] }
    /\ \A i, j \in DOMAIN calls :
           i < j =>
               LET a == calls[i].tool
                   b == calls[j].tool
               IN  /\ IsPreferred(b) => IsPreferred(a)
                   /\ ( IsPreferred(a) /\ IsPreferred(b) )
                          => PreferredPos(a) < PreferredPos(b)
                   /\ ( ~IsPreferred(a) /\ ~IsPreferred(b) )
                          => NameLess(a, b)

\* The third tool is running: cargo-fmt went first although "audit" is the
\* smallest key, then audit, then udeps.
C4_Witness ==
    /\ Len(calls) = 3
    /\ calls[1].tool = "cargo-fmt"
    /\ calls[2].tool = "audit"
    /\ calls[3].tool = "udeps"
    /\ children # {}

\* C5: a launch that fails yields a result with available = false,
\* exit_code = 127, empty stdout and non-empty stderr; the run still ends
\* with a Report, in which every tool of the working set has a result.
C5_LaunchFailureIsData ==
    /\ \A i \in DOMAIN calls :
           ~calls[i].launched =>
               /\ calls[i].tool \in DOMAIN results
               /\ ~results[calls[i].tool].available
               /\ results[calls[i].tool].exit_code = 127
               /\ results[calls[i].tool].stdout = << >>
               /\ Len(results[calls[i].tool].stderr) > 0
    /\ ( \E i \in DOMAIN calls : ~calls[i].launched ) =>
           /\ pc = "done" => IsSome(report)
           /\ IsSome(report) =>
                  /\ DOMAIN report[1].tools = WorkingSet
                  /\ CalledTools = WorkingSet
                  /\ Len(calls) = Cardinality(WorkingSet)

\* A report of three tools of which the first could not be launched and
\* the last one was.
C5_Witness ==
    /\ IsSome(report)
    /\ Len(calls) = 3
    /\ ~calls[1].launched
    /\ calls[3].launched
    /\ Cardinality(DOMAIN report[1].tools) = 3

\* C6: the process has an exit status only once it has ended, and that
\* status is 0 iff a Report was produced and says PASS: non-zero when a
\* critical tool exited non-zero or could not be launched and when the tool
\* is unknown, 0 when only non-critical tools failed; in both render modes
\* the report has been printed before the status is set.
C6_ExitStatusIffPass ==
    /\ IsSome(exit_status) <=> pc = "done"
    /\ pc = "done" =>
           /\ exit_status[1] = 0
                  <=> ( IsSome(report)
                        /\ report[1].summary.overall_status = "PASS" )
           /\ FailedCritical(results) # {} => exit_status[1] # 0
           /\ ( \E k \in DOMAIN results :
                    results[k].critical /\ ~results[k].available )
                  => exit_status[1] # 0
           /\ UnknownRequested => exit_status[1] # 0
           /\ ( IsSome(report) /\ FailedCritical(results) = {} )
                  => exit_status[1] = 0
           /\ ( IsSome(report) /\ cli.json ) =>
                  /\ Len(out) = 1
                  /\ out[1][1] = "tools"
                  /\ out[1][2] =
                         [ i \in 1 .. Cardinality(WorkingSet) |->
                             << out[1][2][i][1],
                                results[out[1][2][i][1]] >> ]
                  /\ out[1][4] = report[1].summary
           /\ ( IsSome(report) /\ ~cli.json ) =>
                  /\ Len(out) = Cardinality(WorkingSet)
                  /\ \E i \in DOMAIN diag :
                         diag[i] = << "Status: ",
                                      report[1].summary.overall_status >>

\* The process has exited non-zero after printing a FAIL report as JSON.
C6_Witness ==
    /\ pc = "done"
    /\ cli.json
    /\ IsSome(report)
    /\ report[1].summary.overall_status = "FAIL"
    /\ exit_status = Some(1)
    /\ Len(out) = 1

\* C7: in every result, fixed is true iff --fix was passed and the tool's
\* can_fix is true, whatever the exit code, the launch outcome and the
\* argument list that was run.
C7_FixedIffFixAndCanFix ==
    \A k \in DOMAIN results :
        results[k].fixed <=> ( cli.fix /\ configs[k].can_fix )

\* A result with fixed = true of a tool that has no fix arguments, was run
\* with its check arguments and could not be launched.
C7_Witness ==
    \E i \in DOMAIN calls :
        /\ calls[i].tool \in DOMAIN results
        /\ results[calls[i].tool].fixed
        /\ configs[calls[i].tool].args_fix = << >>
        /\ calls[i].cmd.args = configs[calls[i].tool].args
        /\ ~results[calls[i].tool].available

\* C8: every command is the tool's command with args_fix when --fix was
\* passed, can_fix is true and args_fix is non-empty, and with args
\* otherwise; a tool with can_fix false never gets its args_fix, so
\* cargo-fmt of the reference registry always runs with --check.
C8_ArgsSelection ==
    \A i \in DOMAIN calls :
        LET cfg == configs[calls[i].tool]
            use_fix == cli.fix /\ cfg.can_fix /\ Len(cfg.args_fix) > 0
        IN  /\ calls[i].cmd.program = cfg.command
            /\ use_fix => calls[i].cmd.args = cfg.args_fix
            /\ ~use_fix => calls[i].cmd.args = cfg.args
            /\ ( ~cfg.can_fix /\ cfg.args_fix # cfg.args )
                   => calls[i].cmd.args # cfg.args_fix
            /\ ( configs = ReferenceConfig /\ calls[i].tool = "cargo-fmt" )
                   => calls[i].cmd.args[Len(calls[i].cmd.args)] = "--check"

\* cargo-fmt of the reference registry run under --fix, with --check.
C8_Witness ==
    \E i \in DOMAIN calls :
        /\ cli.fix
        /\ configs = ReferenceConfig
        /\ calls[i].tool = "cargo-fmt"
        /\ configs["cargo-fmt"].args_fix # << >>
        /\ calls[i].cmd.args = << "fmt", "--all", "--", "--check" >>

\* A result without its duration_ms.
Outcome(r) ==
    [ tool |-> r.tool, description |-> r.description,
      available |-> r.available, exit_code |-> r.exit_code,
      stdout |-> r.stdout, stderr |-> r.stderr, critical |-> r.critical,
      can_fix |-> r.can_fix, fixed |-> r.fixed ]

Outcomes(res) == [ k \in DOMAIN res |-> Outcome(res[k]) ]

\* C9: two invocations that differ only in --path and/or --verbose, run
\* against tools that behave identically, launch the same commands with
\* the same arguments in the same order, and agree on every result field
\* but duration_ms, on the summary counts and verdict, and on the exit
\* status.
C9_PathsAndVerboseIrrelevant ==
    /\ twin.tools_to_run = tools_to_run
    /\ twin.calls = calls
    /\ Outcomes(twin.results) = Outcomes(results)
    /\ IsSome(twin.report) <=> IsSome(report)
    /\ IsSome(report) =>
           /\ Outcomes(twin.report[1].tools) = Outcomes(report[1].tools)
           /\ twin.report[1].summary.total_tools_run
                  = report[1].summary.total_tools_run
           /\ twin.report[1].summary.critical_failures
                  = report[1].summary.critical_failures
           /\ twin.report[1].summary.overall_status
                  = report[1].summary.overall_status
    /\ twin.exit_status = exit_status

\* Two finished invocations with different target paths and verbosity,
\* one of which logged its target paths.
C9_Witness ==
    /\ pc = "done"
    /\ IsSome(report)
    /\ twin_cli.paths # cli.paths
    /\ twin_cli.verbose # cli.verbose
    /\ twin.target_paths # target_paths
    /\ Len(calls) = 3
    /\ \E i \in DOMAIN diag : diag[i][1] = "Target paths: "

\* C10 as stated: exit_code = 127 only if available = false, and
\* available = false only if the launch failed.
C10_Code127OnlyOnLaunchFailure ==
    \A i \in DOMAIN calls :
        calls[i].tool \in DOMAIN results =>
            /\ results[calls[i].tool].exit_code = 127
                   => ~results[calls[i].tool].available
            /\ ~results[calls[i].tool].available => ~calls[i].launched

\* C10 (amended): available = false exactly when the launch failed, and
\* then exit_code = 127; a launched tool carries the child's own status
\* code, or 1 when it has none, hence 127 exactly when the child itself
\* exited with 127.
C10_Code127OnLaunchFailureOrFromChild ==
    \A i \in DOMAIN calls :
        calls[i].tool \in DOMAIN results =>
            LET r == results[calls[i].tool]
            IN  /\ r.available <=> calls[i].launched
                /\ ~r.available => r.exit_code = 127
                /\ r.available =>
                       /\ calls[i].exited
                       /\ IsSome(calls[i].status)
                              => r.exit_code = calls[i].status[1]
                       /\ ~IsSome(calls[i].status) => r.exit_code = 1
                /\ ( r.available /\ r.exit_code = 127 )
                       => calls[i].status = Some(127)

\* A launched tool whose result carries exit_code 127.
C10_Witness ==
    \E k \in DOMAIN results :
        results[k].available /\ results[k].exit_code = 127

====
